---- MODULE Spec2Model ----
(***************************************************************************)
(* Holonomic trajectory manager (cvra-modules): the periodic evaluator     *)
(* holonomic_trajectory_manager_event, its arrival predicates, the speed   *)
(* ramp, the scheduler arming/disarming helpers and the angle utilities.   *)
(*                                                                         *)
(* Units.  Lengths are integer millimetres.  Angles are integers in units  *)
(* of pi/64 rad, so M_PI = 64, M_PI_2 = 32 and ANGLE_INC (0.05 rad) is one *)
(* unit (pi/64 = 0.049 rad).  cos and sin are tabulated to 1/1000.         *)
(***************************************************************************)
EXTENDS Integers, Sequences, FiniteSets, TLC

VARIABLES
    traj,        \* struct h_trajectory (the fields the evaluator uses)
    prev_speed,  \* static int prev_speed: the ramp's last issued speed
    keyframe,    \* static vect2_cart keyframe of the evaluator
    pos,         \* the pose last read from the position manager
    rsh,         \* robot_system_holonomic: last speed, direction, omega set
    sched,       \* task ids the scheduler holds for this trajectory
    ev,          \* the last operation: the functions entered and calls made
    streak,      \* consecutive STRAIGHT/IDLE ticks inside the xy window
    arc,         \* the arc last commanded: its start pose and arrival point
    calc,        \* the angle utility last applied: function, input, output
    other        \* a second struct h_trajectory with its own robot system

vars == <<traj, prev_speed, keyframe, pos, rsh, sched, ev, streak, arc, calc,
          other>>

-----------------------------------------------------------------------------
(* Program constants *)

M_PI == 64
M_PI_2 == M_PI \div 2
SPEED_ROBOT == 500
ANGLE_INC == 1
NO_TASK == -1

(* Bounds of the model *)

MaxTaskId == 0        \* the scheduler hands out task ids 0..MaxTaskId

-----------------------------------------------------------------------------
(* Arithmetic helpers *)

ABS(v) == IF v < 0 THEN -v ELSE v

\* n / d rounded to the nearest integer (d > 0)
RoundDiv(n, d) == (2 * n + d) \div (2 * d)

\* C's integer conversion and integer division truncate toward zero
TruncDiv(n, d) == IF n >= 0 THEN n \div d ELSE -((-n) \div d)

RECURSIVE SqrtSearch(_, _, _)
SqrtSearch(n, lo, hi) ==
    IF lo >= hi THEN lo
    ELSE LET mid == (lo + hi + 1) \div 2
         IN  IF mid * mid <= n THEN SqrtSearch(n, mid, hi)
             ELSE SqrtSearch(n, lo, mid - 1)

\* (int32_t) sqrtf(n)
ISqrt(n) == SqrtSearch(n, 0, 4096)

CosTab ==
    << 1000, 999, 995, 989, 981, 970, 957, 942, 924, 904, 882, 858, 831, 803, 773, 741,
       707, 672, 634, 596, 556, 514, 471, 428, 383, 337, 290, 243, 195, 147, 98, 49,
       0, -49, -98, -147, -195, -243, -290, -337, -383, -428, -471, -514, -556, -596, -634, -672,
       -707, -741, -773, -803, -831, -858, -882, -904, -924, -942, -957, -970, -981, -989, -995, -999,
       -1000, -999, -995, -989, -981, -970, -957, -942, -924, -904, -882, -858, -831, -803, -773, -741,
       -707, -672, -634, -596, -556, -514, -471, -428, -383, -337, -290, -243, -195, -147, -98, -49,
       0, 49, 98, 147, 195, 243, 290, 337, 383, 428, 471, 514, 556, 596, 634, 672,
       707, 741, 773, 803, 831, 858, 882, 904, 924, 942, 957, 970, 981, 989, 995, 999 >>

\* 1000 * cos(a), 1000 * sin(a)
cos(a) == CosTab[(a % (2 * M_PI)) + 1]
sin(a) == cos(a - M_PI_2)

\* the projection of (dx, dy) on direction k, scaled by 1000
Proj(dx, dy, k) == dx * cos(k) + dy * sin(k)

\* within a quadrant the projection rises to the vector's direction
RECURSIVE Climb(_, _, _, _)
Climb(dx, dy, k, hi) ==
    IF k < hi /\ Proj(dx, dy, k + 1) > Proj(dx, dy, k)
    THEN Climb(dx, dy, k + 1, hi)
    ELSE k

\* atan2f(dy, dx) in (-pi, pi], to the nearest unit
atan2f(dy, dx) ==
    CASE dx = 0 /\ dy = 0 -> 0
      [] dx > 0 /\ dy >= 0 -> Climb(dx, dy, 0, M_PI_2)
      [] dx <= 0 /\ dy > 0 -> Climb(dx, dy, M_PI_2, M_PI)
      [] dx < 0 /\ dy <= 0 ->
            LET k == Climb(dx, dy, -M_PI, -M_PI_2)
            IN  IF k = -M_PI THEN M_PI ELSE k
      [] OTHER -> Climb(dx, dy, -M_PI_2, 0)

\* vect2_angle_vec_x_rad_cart: angle between the vector and the x axis
vect2_angle_vec_x_rad_cart(v) == atan2f(v.y, v.x)

\* TO_DEG, assigned to an int32_t
TO_DEG(a) == TruncDiv(a * 180, M_PI)

\* squared vect2_dist_cart; dist < w is compared as dist^2 < w^2 (w >= 0)
Dist2(p, q) == (p.x - q.x) * (p.x - q.x) + (p.y - q.y) * (p.y - q.y)

\* center + (cos(a), sin(a)) * radius
OnCircle(center, radius, a) ==
    [x |-> center.x + RoundDiv(cos(a) * radius, 1000),
     y |-> center.y + RoundDiv(sin(a) * radius, 1000)]

-----------------------------------------------------------------------------
(* The program state an operation works on, as one record:                  *)
(* [traj, prev_speed, keyframe, rsh, sched, calls]; calls lists, in order,  *)
(* the functions of this module the operation has entered and the calls     *)
(* into the robot system and the scheduler it has made.                     *)

Cur ==
    [traj |-> traj, prev_speed |-> prev_speed, keyframe |-> keyframe,
     rsh |-> rsh, sched |-> sched, calls |-> << >>]

\* a ramp that comes down by half the step
do_ramp_half_step_down(prev, consign) ==
    prev + (IF consign >= prev THEN 20 ELSE -10)

\* the speed ramp: prev_speed moves by the fixed step toward the consign
holonomic_do_ramp(prev, consign) ==
    LET step == 20
    IN  prev + (IF consign >= prev THEN step ELSE -step)

set_consigns_to_rsh(w, speed, direction, omega) ==
    LET v == holonomic_do_ramp(w.prev_speed, speed)
    IN  [w EXCEPT !.prev_speed = v,
                  !.rsh = [speed |-> v, direction |-> direction, omega |-> omega],
                  !.calls = @ \o <<"rsh_set_speed", "rsh_set_direction_int",
                                   "rsh_set_rotation_speed">>]

\* disarming without the test for an armed task
delete_event_unguarded(w, theta_v) ==
    LET w1 == [w EXCEPT !.prev_speed = 0, !.traj.end_of_traj = 1,
                        !.calls = @ \o <<"holonomic_delete_event">>]
        w2 == set_consigns_to_rsh(w1, 0, theta_v, 0)
    IN  [w2 EXCEPT !.rsh.speed = 0,
                   !.sched = @ \ {w2.traj.scheduler_task},
                   !.traj.scheduler_task = NO_TASK,
                   !.calls = @ \o <<"rsh_set_speed", "scheduler_del_event">>]

\* disarming without the closing rsh_set_speed(traj->robot, 0)
delete_event_no_final_stop(w, theta_v) ==
    LET w1 == [w EXCEPT !.prev_speed = 0, !.traj.end_of_traj = 1,
                        !.calls = @ \o <<"holonomic_delete_event">>]
        w2 == set_consigns_to_rsh(w1, 0, theta_v, 0)
    IN  IF w2.traj.scheduler_task # NO_TASK
        THEN [w2 EXCEPT !.sched = @ \ {w2.traj.scheduler_task},
                        !.traj.scheduler_task = NO_TASK,
                        !.calls = @ \o <<"scheduler_del_event">>]
        ELSE w2

\* theta_v: holonomic_position_get_theta_v_int(traj->position)
holonomic_delete_event(w, theta_v) ==
    LET w1 == [w EXCEPT !.prev_speed = 0, !.traj.end_of_traj = 1,
                        !.calls = @ \o <<"holonomic_delete_event">>]
        w2 == set_consigns_to_rsh(w1, 0, theta_v, 0)
        w3 == [w2 EXCEPT !.rsh.speed = 0, !.calls = @ \o <<"rsh_set_speed">>]
    IN  IF w3.traj.scheduler_task # NO_TASK
        THEN [w3 EXCEPT !.sched = @ \ {w3.traj.scheduler_task},
                        !.traj.scheduler_task = NO_TASK,
                        !.calls = @ \o <<"scheduler_del_event">>]
        ELSE w3

\* arming without the test for a task already armed
schedule_event_unguarded(w, id) ==
    [w EXCEPT !.sched = @ \cup ({id} \ {NO_TASK}),
              !.traj.scheduler_task = id,
              !.calls = @ \o <<"holonomic_schedule_event",
                               "scheduler_add_periodical_event_priority">>]

\* id: what scheduler_add_periodical_event_priority would return, a free
\* slot of the scheduler's table or -1 when it has none
holonomic_schedule_event(w, id) ==
    IF w.traj.scheduler_task # NO_TASK
    THEN [w EXCEPT !.calls = @ \o <<"holonomic_schedule_event">>]
    ELSE [w EXCEPT !.sched = @ \cup ({id} \ {NO_TASK}),
                   !.traj.scheduler_task = id,
                   !.calls = @ \o <<"holonomic_schedule_event",
                                    "scheduler_add_periodical_event_priority">>]

\* a distance window that takes d_win for a radius twice as large
xy_window_double_radius(t, p, d_win) ==
    Dist2(p, t.xy_target) < 4 * d_win * d_win

\* near the target (dist in x,y) ?
holonomic_robot_in_xy_window(t, p, d_win) ==
    Dist2(p, t.xy_target) < d_win * d_win

\* true if the heading is in the angle window; a_win_rad / 2 is not rounded
holonomic_robot_in_angle_window(t, p, a_win_rad) ==
    LET d_a == t.a_target - p.a
    IN  IF ABS(d_a) < M_PI
        THEN 2 * ABS(d_a) < a_win_rad
        ELSE 2 * (2 * M_PI - ABS(d_a)) < a_win_rad

\* the keyframe ANGLE_INC ahead of the pose on the circle
NextKeyframe(t, p) ==
    OnCircle(t.circle_center, t.radius,
             atan2f(p.y - t.circle_center.y, p.x - t.circle_center.x) - ANGLE_INC)

\* the arrival point the evaluator computes: arc_angle ahead of the pose
EventArrival(t, p) ==
    OnCircle(t.circle_center, t.radius,
             atan2f(p.y - t.circle_center.y, p.x - t.circle_center.x) - t.arc_angle)

\* step 1, moving part: [s, a, keyframe, xy_target]
\* a moving part that copies the keyframe into xy_target in every state
MovingConsign_keyframe_always(w, p) ==
    LET t == w.traj
        distance2target == ISqrt(Dist2(p, t.xy_target))
        vec_target == [x |-> t.xy_target.x - p.x, y |-> t.xy_target.y - p.y]
        a_consign == TO_DEG(vect2_angle_vec_x_rad_cart(vec_target))
    IN  CASE t.moving_state = "MOVING_STRAIGHT" ->
                [s |-> IF distance2target < 250 THEN 2 * distance2target
                       ELSE SPEED_ROBOT,
                 a |-> a_consign, keyframe |-> w.keyframe,
                 xy_target |-> w.keyframe]
          [] t.moving_state = "MOVING_CIRCLE" ->
                LET kf == IF w.keyframe.x < 0 THEN NextKeyframe(t, p)
                          ELSE w.keyframe
                IN  [s |-> SPEED_ROBOT \div 5, a |-> a_consign,
                     keyframe |-> kf, xy_target |-> kf]
          [] OTHER ->
                [s |-> 0, a |-> 0, keyframe |-> w.keyframe,
                 xy_target |-> w.keyframe]

\* a moving part whose STRAIGHT case has no taper near the target
MovingConsign_no_taper(w, p) ==
    LET t == w.traj
        vec_target == [x |-> t.xy_target.x - p.x, y |-> t.xy_target.y - p.y]
        a_consign == TO_DEG(vect2_angle_vec_x_rad_cart(vec_target))
    IN  CASE t.moving_state = "MOVING_STRAIGHT" ->
                [s |-> SPEED_ROBOT, a |-> a_consign, keyframe |-> w.keyframe,
                 xy_target |-> t.xy_target]
          [] t.moving_state = "MOVING_CIRCLE" ->
                LET kf == IF w.keyframe.x < 0 THEN NextKeyframe(t, p)
                          ELSE w.keyframe
                IN  [s |-> SPEED_ROBOT \div 5, a |-> a_consign,
                     keyframe |-> kf, xy_target |-> kf]
          [] OTHER ->
                [s |-> 0, a |-> 0, keyframe |-> w.keyframe,
                 xy_target |-> t.xy_target]

MovingConsign(w, p) ==
    LET t == w.traj
        distance2target == ISqrt(Dist2(p, t.xy_target))
        vec_target == [x |-> t.xy_target.x - p.x, y |-> t.xy_target.y - p.y]
        a_consign == TO_DEG(vect2_angle_vec_x_rad_cart(vec_target))
    IN  CASE t.moving_state = "MOVING_STRAIGHT" ->
                [s |-> IF distance2target < 250 THEN 2 * distance2target
                       ELSE SPEED_ROBOT,
                 a |-> a_consign, keyframe |-> w.keyframe,
                 xy_target |-> t.xy_target]
          [] t.moving_state = "MOVING_CIRCLE" ->
                LET kf == IF w.keyframe.x < 0 THEN NextKeyframe(t, p)
                          ELSE w.keyframe
                IN  [s |-> SPEED_ROBOT \div 5, a |-> a_consign,
                     keyframe |-> kf, xy_target |-> kf]
          [] OTHER ->
                [s |-> 0, a |-> 0, keyframe |-> w.keyframe,
                 xy_target |-> t.xy_target]

\* a turning part that issues the heading error itself as the consign
TurningConsign_heading_error(t, p) == t.a_target - p.a

\* step 1, turning part: the angular speed consign
TurningConsign(t, p) ==
    CASE t.turning_state = "TURNING_CAP" ->
            IF t.a_target - p.a < 0 \/ t.a_target - p.a > M_PI THEN 50 ELSE -50
      [] t.turning_state = "TURNING_SPEEDOFFSET" -> 1
      [] t.turning_state = "TURNING_FACEPOINT" -> 1
      [] OTHER -> 0

\* the periodic evaluator; p is the pose read, theta_v the speed heading
holonomic_trajectory_manager_event(w, p, theta_v) ==
    LET m == MovingConsign(w, p)
        o_consign == TurningConsign(w.traj, p)
        w1 == [w EXCEPT !.keyframe = m.keyframe, !.traj.xy_target = m.xy_target,
                        !.calls = @ \o <<"holonomic_trajectory_manager_event">>]
        t == w1.traj
        in_xy == t.turning_state = "TURNING_IDLE"
                    /\ holonomic_robot_in_xy_window(t, p, t.d_win)
        s_consign == IF in_xy THEN 0 ELSE m.s
    IN  IF in_xy /\ t.moving_state = "MOVING_CIRCLE"
        THEN LET w2 == [w1 EXCEPT !.keyframe = NextKeyframe(t, p)]
             IN  IF Dist2(EventArrival(t, p), p) < t.d_win * t.d_win
                 THEN holonomic_delete_event(w2, theta_v)
                 ELSE w2
        ELSE IF in_xy /\ w1.prev_speed < 20
        THEN holonomic_delete_event(
                 [w1 EXCEPT !.traj.moving_state = "MOVING_IDLE"], theta_v)
        ELSE IF t.moving_state = "MOVING_IDLE"
                    /\ holonomic_robot_in_angle_window(t, p, t.a_win)
        THEN holonomic_delete_event(
                 [w1 EXCEPT !.traj.turning_state = "TURNING_IDLE"], theta_v)
        ELSE set_consigns_to_rsh(w1, s_consign, m.a, o_consign)

-----------------------------------------------------------------------------
(* Inputs *)

Point(px, py) == [x |-> px, y |-> py]

\* positions the position manager reports: two on the circle of radius
\* 1000 around the origin (at 0 and at -pi/2) and one inside it
Positions == {Point(1000, 0), Point(900, 0), Point(0, -1000)}
Headings == {0, -63}
Poses ==
    {[x |-> q.x, y |-> q.y, a |-> h] : q \in Positions, h \in Headings}
        \ {[x |-> q.x, y |-> q.y, a |-> -63] : q \in Positions \ {Point(1000, 0)}}
ThetaVs == {90}

Targets == {Point(1000, 0)}
Caps == {M_PI}
Centers == {Point(0, 0)}
ArcAngles == {M_PI_2}
\* holonomic_trajectory_set_windows(traj, 60 mm, 6 units), at start-up
D_WIN == 60
A_WIN == 6
TaskIds == 0 .. MaxTaskId

\* the ids the scheduler can return for one more registration
FreeIds == IF TaskIds \ sched = {} THEN {NO_TASK} ELSE TaskIds \ sched

-----------------------------------------------------------------------------
(* State *)

\* after holonomic_trajectory_init (idle on both axes, no task) and
\* holonomic_trajectory_set_windows
Init ==
    /\ traj = [moving_state |-> "MOVING_IDLE", turning_state |-> "TURNING_IDLE",
               xy_target |-> Point(0, 0), a_target |-> 0,
               circle_center |-> Point(0, 0), arc_angle |-> 0, radius |-> 0,
               d_win |-> D_WIN, a_win |-> A_WIN, end_of_traj |-> 0,
               scheduler_task |-> NO_TASK]
    /\ prev_speed = 0
    /\ keyframe = Point(-1, -1)
    /\ pos = [x |-> 1000, y |-> 0, a |-> 0]
    /\ rsh = [speed |-> 0, direction |-> 0, omega |-> 0]
    /\ sched = {}
    /\ ev = << >>
    /\ streak = [n |-> 0, p |-> 0]
    /\ arc = Point(0, 0)
    /\ calc = [fn |-> "none", in |-> 0, out |-> 0]
    /\ other = [traj |-> traj, rsh |-> rsh, sched |-> {}, calls |-> << >>]

\* the operation's result becomes the next state; the second trajectory
\* struct is not an argument of the operation
Commit(w) ==
    /\ traj' = w.traj
    /\ prev_speed' = w.prev_speed
    /\ keyframe' = w.keyframe
    /\ rsh' = w.rsh
    /\ sched' = w.sched
    /\ ev' = w.calls
    /\ other' = other

-----------------------------------------------------------------------------
(* Command API.  Each command sets the goal fields of one axis and arms the  *)
(* periodic task through holonomic_schedule_event.  No command touches       *)
(* end_of_traj, and none can reach the evaluator's keyframe, which is a      *)
(* static local of holonomic_trajectory_manager_event.                       *)

holonomic_trajectory_moving_straight_goto_xy_abs ==
    \E target \in Targets, id \in FreeIds :
        /\ Commit(holonomic_schedule_event(
                      [Cur EXCEPT !.traj.moving_state = "MOVING_STRAIGHT",
                                  !.traj.xy_target = target], id))
        /\ streak' = [n |-> 0, p |-> 0]
        /\ UNCHANGED <<pos, arc, calc>>

holonomic_trajectory_moving_circle ==
    \E center \in Centers, arc_angle \in ArcAngles, p \in Poses, id \in FreeIds :
        LET radius == ISqrt(Dist2(p, center))
        IN  /\ Commit(holonomic_schedule_event(
                          [Cur EXCEPT !.traj.moving_state = "MOVING_CIRCLE",
                                      !.traj.circle_center = center,
                                      !.traj.radius = radius,
                                      !.traj.arc_angle = arc_angle], id))
            /\ pos' = p
            /\ arc' = OnCircle(center, radius,
                               atan2f(p.y - center.y, p.x - center.x) - arc_angle)
            /\ streak' = [n |-> 0, p |-> 0]
            /\ UNCHANGED calc

holonomic_trajectory_turning_cap ==
    \E cap \in Caps, id \in FreeIds :
        /\ Commit(holonomic_schedule_event(
                      [Cur EXCEPT !.traj.turning_state = "TURNING_CAP",
                                  !.traj.a_target = cap], id))
        /\ streak' = [n |-> 0, p |-> 0]
        /\ UNCHANGED <<pos, arc, calc>>

-----------------------------------------------------------------------------
(* Operations of the evaluator module *)

ScheduleEvent ==
    \E id \in FreeIds :
        /\ Commit(holonomic_schedule_event(Cur, id))
        /\ streak' = [n |-> 0, p |-> 0]
        /\ UNCHANGED <<pos, arc, calc>>

DeleteEvent ==
    \E theta_v \in ThetaVs :
        /\ Commit(holonomic_delete_event(Cur, theta_v))
        /\ streak' = [n |-> 0, p |-> 0]
        /\ UNCHANGED <<pos, arc, calc>>

\* the scheduler runs the periodic task while it is registered
Tick ==
    /\ sched # {}
    /\ \E p \in Poses, theta_v \in ThetaVs :
        /\ Commit(holonomic_trajectory_manager_event(Cur, p, theta_v))
        /\ pos' = p
        /\ streak' =
              IF /\ traj.moving_state = "MOVING_STRAIGHT"
                 /\ traj.turning_state = "TURNING_IDLE"
                 /\ holonomic_robot_in_xy_window(traj, p, traj.d_win)
              THEN [n |-> streak.n + 1,
                    p |-> IF streak.n = 0 THEN prev_speed ELSE streak.p]
              ELSE [n |-> 0, p |-> 0]
        /\ UNCHANGED <<arc, calc>>

Next ==
    \/ ScheduleEvent
    \/ DeleteEvent
    \/ Tick
    \/ holonomic_trajectory_moving_straight_goto_xy_abs
    \/ holonomic_trajectory_moving_circle
    \/ holonomic_trajectory_turning_cap

Spec == Init /\ [][Next]_vars

\* A go-to-point goal and a heading goal under the periodic scheduler, which
\* keeps calling the task while it is registered
MixedNext ==
    \/ holonomic_trajectory_moving_straight_goto_xy_abs
    \/ holonomic_trajectory_turning_cap
    \/ Tick

FairSpec == Init /\ [][MixedNext]_vars /\ WF_vars(Tick)

-----------------------------------------------------------------------------
(* Two trajectories.  A second struct h_trajectory, with its own robot     *)
(* system and its own periodic task, runs through the same functions: the  *)
(* file-static prev_speed and the evaluator's static keyframe exist once.  *)

CurOther ==
    [traj |-> other.traj, prev_speed |-> prev_speed, keyframe |-> keyframe,
     rsh |-> other.rsh, sched |-> other.sched, calls |-> << >>]

CommitOther(w) ==
    /\ other' = [traj |-> w.traj, rsh |-> w.rsh, sched |-> w.sched,
                 calls |-> w.calls]
    /\ prev_speed' = w.prev_speed
    /\ keyframe' = w.keyframe
    /\ UNCHANGED <<traj, pos, rsh, sched, ev, streak, arc, calc>>

OtherFreeIds ==
    IF TaskIds \ other.sched = {} THEN {NO_TASK} ELSE TaskIds \ other.sched

OtherGotoXY ==
    \E target \in Targets, id \in OtherFreeIds :
        CommitOther(holonomic_schedule_event(
                        [CurOther EXCEPT !.traj.moving_state = "MOVING_STRAIGHT",
                                         !.traj.xy_target = target], id))

OtherTick ==
    /\ other.sched # {}
    /\ \E p \in Poses, theta_v \in ThetaVs :
          CommitOther(holonomic_trajectory_manager_event(CurOther, p, theta_v))

\* the two trajectories are ticked while the ramp state is at most
\* MaxSharedSpeed and the first has spent at most MaxStreak consecutive ticks
\* inside its distance window
MaxSharedSpeed == 60
MaxStreak == 3

TwoNext ==
    \/ holonomic_trajectory_moving_straight_goto_xy_abs
    \/ (prev_speed <= MaxSharedSpeed /\ streak.n < MaxStreak /\ Tick)
    \/ OtherGotoXY
    \/ (prev_speed <= MaxSharedSpeed /\ OtherTick)

TwoSpec == Init /\ [][TwoNext]_vars

-----------------------------------------------------------------------------
(* The pure functions, applied to inputs drawn from bounded sets *)

MaxRampK == 12
RampInputs == {5 * k : k \in 0 .. MaxRampK}
AngleDiffs == (-2 * M_PI) .. (2 * M_PI)

\* Calculates if the positiv or the negativ rotation is better.
holonomic_best_delta_angle_rad(a) ==
    IF a > M_PI THEN a - 2 * M_PI
    ELSE IF a < -M_PI THEN 2 * M_PI - a
    ELSE a

\* do a modulo 2.pi -> [-Pi,+Pi], knowing that 'a' is in [-3Pi,+3Pi]
holonomic_simple_modulo_2pi(a) ==
    IF a < -M_PI THEN a + M_PI_2
    ELSE IF a > M_PI THEN a - M_PI_2
    ELSE a

\* do a modulo 2.pi -> [-Pi,+Pi]
holonomic_modulo_2pi(a) ==
    LET res == a - TruncDiv(a, M_PI_2) * M_PI_2
    IN  holonomic_simple_modulo_2pi(res)

WideAngles == (-3 * M_PI) .. (3 * M_PI)

ApplyDoRamp ==
    /\ \E prev \in RampInputs, consign \in RampInputs :
          calc' = [fn |-> "holonomic_do_ramp", in |-> <<prev, consign>>,
                   out |-> holonomic_do_ramp(prev, consign)]
    /\ UNCHANGED <<traj, prev_speed, keyframe, pos, rsh, sched, ev, streak, arc,
                   other>>

ApplyBestDeltaAngle ==
    /\ \E d \in AngleDiffs :
          calc' = [fn |-> "holonomic_best_delta_angle_rad", in |-> d,
                   out |-> holonomic_best_delta_angle_rad(d)]
    /\ UNCHANGED <<traj, prev_speed, keyframe, pos, rsh, sched, ev, streak, arc,
                   other>>

ApplySimpleModulo2Pi ==
    /\ \E a \in WideAngles :
          calc' = [fn |-> "holonomic_simple_modulo_2pi", in |-> a,
                   out |-> holonomic_simple_modulo_2pi(a)]
    /\ UNCHANGED <<traj, prev_speed, keyframe, pos, rsh, sched, ev, streak, arc,
                   other>>

ApplyModulo2Pi ==
    /\ \E a \in WideAngles :
          calc' = [fn |-> "holonomic_modulo_2pi", in |-> a,
                   out |-> holonomic_modulo_2pi(a)]
    /\ UNCHANGED <<traj, prev_speed, keyframe, pos, rsh, sched, ev, streak, arc,
                   other>>

CalcNext ==
    \/ ApplyDoRamp
    \/ ApplyBestDeltaAngle
    \/ ApplySimpleModulo2Pi
    \/ ApplyModulo2Pi

CalcSpec == Init /\ [][CalcNext]_vars

-----------------------------------------------------------------------------
(* Predicates on the state *)

Armed == traj.scheduler_task # NO_TASK

InXYWindow == holonomic_robot_in_xy_window(traj, pos, traj.d_win)

InAngleWindow == holonomic_robot_in_angle_window(traj, pos, traj.a_win)

Called(f) == \E i \in 1 .. Len(ev) : ev[i] = f

\* the last operation was a tick of the evaluator
TickRan == ev # << >> /\ ev[1] = "holonomic_trajectory_manager_event"

\* the last operation ran holonomic_delete_event (a force-stop or a finish)
DeleteRan == Called("holonomic_delete_event")

\* the last operation was a force-stop: holonomic_delete_event from outside
ForceStopRan == ev # << >> /\ ev[1] = "holonomic_delete_event"

Deregistered == traj.scheduler_task = NO_TASK /\ sched = {}

-----------------------------------------------------------------------------
(* C1: a go-to-point goal mixed with a turning goal terminates: if from    *)
(* some tick on the trajectory is STRAIGHT and HOLD_HEADING with the pose   *)
(* inside the distance window and the heading inside the angle window,      *)
(* then a tick of the evaluator deregisters the task and sets end_of_traj.  *)

MixedGoalInWindows ==
    /\ traj.moving_state = "MOVING_STRAIGHT"
    /\ traj.turning_state = "TURNING_CAP"
    /\ Armed /\ sched # {}
    /\ InXYWindow /\ InAngleWindow

TickFinished == TickRan /\ DeleteRan /\ Deregistered /\ traj.end_of_traj = 1

C1_MixedGoalTerminates == <>[]MixedGoalInWindows => <>TickFinished

-----------------------------------------------------------------------------
(* C2: STRAIGHT with turning IDLE: once the pose is inside the distance     *)
(* window on every tick, with p the speed last issued before the first such *)
(* tick, the evaluator has finished (moving IDLE, task deregistered,        *)
(* end_of_traj set) after at most p/20 + 1 of these ticks.                  *)

SettleBound == streak.p \div 20 + 1

C2_SettlesWithinBound ==
    streak.n > 0 =>
        /\ streak.n <= SettleBound
        /\ streak.n = SettleBound =>
              /\ traj.moving_state = "MOVING_IDLE"
              /\ Deregistered
              /\ traj.end_of_traj = 1

\* a run that started at speed 40 and took its three ticks to finish
C2_Witness ==
    /\ streak = [n |-> 3, p |-> 40]
    /\ TickFinished
    /\ traj.moving_state = "MOVING_IDLE"

-----------------------------------------------------------------------------
(* C3: for an arc (CIRCLE, turning IDLE) a tick finishes the trajectory     *)
(* when, and only when, the pose is within d_win of the arrival point: the  *)
(* point of the circle arc_angle from the pose where the arc started.       *)

C3_ArcFinishesAtArrival ==
    (TickRan /\ traj.moving_state = "MOVING_CIRCLE"
             /\ traj.turning_state = "TURNING_IDLE")
        => (DeleteRan <=> Dist2(pos, arc) < traj.d_win * traj.d_win)

-----------------------------------------------------------------------------
(* C4: scheduler_task is -1 if and only if the scheduler holds no          *)
(* registration for the trajectory, and it never holds more than one.       *)

-----------------------------------------------------------------------------
(* C5: arming and disarming are idempotent.  holonomic_schedule_event with  *)
(* a task armed calls the scheduler not at all and changes nothing;         *)
(* holonomic_delete_event with no task armed does not call                  *)
(* scheduler_del_event; and a holonomic_delete_event that follows another   *)
(* leaves the trajectory as the first one left it.                          *)

CalledIn(log, f) == \E i \in 1 .. Len(log) : log[i] = f

ProgramUnchanged ==
    /\ traj' = traj /\ prev_speed' = prev_speed /\ keyframe' = keyframe
    /\ rsh' = rsh /\ sched' = sched

C5_ArmDisarmIdempotent ==
    [][ /\ (ScheduleEvent /\ Armed) =>
              (ProgramUnchanged /\ ev' = <<"holonomic_schedule_event">>)
        /\ (DeleteEvent /\ ~Armed) => ~CalledIn(ev', "scheduler_del_event")
        /\ (DeleteEvent /\ DeleteRan) =>
              /\ traj' = traj /\ prev_speed' = prev_speed
              /\ keyframe' = keyframe /\ sched' = sched
              /\ rsh'.speed = rsh.speed /\ rsh'.omega = rsh.omega
      ]_vars

\* an arc was armed, disarmed, and holonomic_delete_event then ran again
C5_Witness ==
    /\ ForceStopRan /\ ~Called("scheduler_del_event")
    /\ traj.moving_state = "MOVING_CIRCLE"
    /\ Deregistered

-----------------------------------------------------------------------------
(* C6: between operations end_of_traj = 1 implies that the periodic task is *)
(* deregistered (scheduler_task = -1).                                      *)

C6_EndOfTrajImpliesDeregistered ==
    traj.end_of_traj = 1 => traj.scheduler_task = NO_TASK

-----------------------------------------------------------------------------
(* C7: after holonomic_delete_event has run, as a force-stop or as a finish *)
(* of the evaluator, no task is armed, end_of_traj is set, and the last     *)
(* speed and the last angular speed given to the robot system are zero.     *)

C7_DeleteStopsRobot ==
    DeleteRan =>
        /\ Deregistered
        /\ traj.end_of_traj = 1
        /\ rsh.speed = 0
        /\ rsh.omega = 0

\* a force-stop of an armed arc
C7_Witness ==
    /\ ForceStopRan /\ Called("scheduler_del_event")
    /\ traj.moving_state = "MOVING_CIRCLE"
    /\ rsh.speed = 0

-----------------------------------------------------------------------------
(* C8: holonomic_do_ramp never overshoots: its result differs from the      *)
(* previous speed p by at most 20 and lies between p and the consign c; for *)
(* p = c it is c.                                                           *)

C8_RampNeverOvershoots ==
    calc.fn = "holonomic_do_ramp" =>
        LET p == calc.in[1]
            c == calc.in[2]
            r == calc.out
        IN  /\ ABS(r - p) <= 20
            /\ (p <= c => (p <= r /\ r <= c))
            /\ (c <= p => (c <= r /\ r <= p))

-----------------------------------------------------------------------------
(* C9: the ramp's state is reset when a trajectory finishes: right after    *)
(* holonomic_delete_event has run, prev_speed is 0.                         *)

C9_RampResetOnFinish == DeleteRan => prev_speed = 0

-----------------------------------------------------------------------------
(* C10: for d in [-2pi, 2pi], holonomic_best_delta_angle_rad(d) lies in     *)
(* (-pi, pi], is congruent to d modulo 2pi, and is a fixed point of the     *)
(* function.                                                                *)

C10_BestDeltaNormalizes ==
    calc.fn = "holonomic_best_delta_angle_rad" =>
        /\ -M_PI < calc.out /\ calc.out <= M_PI
        /\ (calc.out - calc.in) % (2 * M_PI) = 0
        /\ holonomic_best_delta_angle_rad(calc.out) = calc.out

-----------------------------------------------------------------------------
(* C11: for a in [-3pi, 3pi], holonomic_simple_modulo_2pi(a) and            *)
(* holonomic_modulo_2pi(a) lie in (-pi, pi] and differ from a by a multiple *)
(* of 2pi.                                                                  *)

C11_ModuloReduces ==
    calc.fn \in {"holonomic_simple_modulo_2pi", "holonomic_modulo_2pi"} =>
        /\ -M_PI < calc.out /\ calc.out <= M_PI
        /\ (calc.out - calc.in) % (2 * M_PI) = 0

-----------------------------------------------------------------------------
(* The angle predicates on their own: the initial state draws a goal        *)
(* heading, a heading and an angle window, and one call is applied to it.   *)

AngleTargets  == (-M_PI + 1) .. M_PI
AngleHeadings == (-M_PI) .. (2 * M_PI)
AngleWins     == {A_WIN, M_PI_2 + 1}

AngleInit ==
    /\ traj = [moving_state |-> "MOVING_IDLE", turning_state |-> "TURNING_IDLE",
               xy_target |-> Point(0, 0), a_target |-> 0,
               circle_center |-> Point(0, 0), arc_angle |-> 0, radius |-> 0,
               d_win |-> D_WIN, a_win |-> A_WIN, end_of_traj |-> 0,
               scheduler_task |-> NO_TASK]
    /\ prev_speed = 0
    /\ keyframe = Point(-1, -1)
    /\ pos = [x |-> 1000, y |-> 0, a |-> 0]
    /\ rsh = [speed |-> 0, direction |-> 0, omega |-> 0]
    /\ sched = {}
    /\ ev = << >>
    /\ streak = [n |-> 0, p |-> 0]
    /\ arc = Point(0, 0)
    /\ \E t \in AngleTargets, h \in AngleHeadings, w \in AngleWins :
          calc = [fn |-> "none",
                  in |-> [a_target |-> t, heading |-> h, a_win |-> w],
                  out |-> 0]
    /\ other = [traj |-> traj, rsh |-> rsh, sched |-> {}, calls |-> << >>]

\* the TURNING_CAP branch of the evaluator for goal heading t and heading h
CapConsign(t, h) ==
    TurningConsign([turning_state |-> "TURNING_CAP", a_target |-> t], [a |-> h])

\* the angle window predicate for goal heading t, heading h and window w
AngleWindow(t, h, w) ==
    holonomic_robot_in_angle_window([a_target |-> t], [a |-> h], w)

ApplyAngleWindow ==
    /\ calc.fn = "none"
    /\ calc' = [calc EXCEPT !.fn = "holonomic_robot_in_angle_window",
                            !.out = AngleWindow(calc.in.a_target, calc.in.heading,
                                                calc.in.a_win)]
    /\ UNCHANGED <<traj, prev_speed, keyframe, pos, rsh, sched, ev, streak, arc,
                   other>>

ApplyTurningCap ==
    /\ calc.fn = "none"
    /\ ABS(calc.in.a_target - calc.in.heading) < 2 * M_PI
    /\ calc' = [calc EXCEPT !.fn = "TURNING_CAP",
                            !.out = CapConsign(calc.in.a_target, calc.in.heading)]
    /\ UNCHANGED <<traj, prev_speed, keyframe, pos, rsh, sched, ev, streak, arc,
                   other>>

AngleNext ==
    \/ ApplyAngleWindow
    \/ ApplyTurningCap

AngleSpec == AngleInit /\ [][AngleNext]_vars

\* the angle in (-pi, pi] equivalent to e, and the distance around the circle
ShortestRotation(e) == ((e + M_PI - 1) % (2 * M_PI)) - M_PI + 1
CircularDistance(a, b) == ABS(ShortestRotation(a - b))
Sign(x) == IF x > 0 THEN 1 ELSE IF x < 0 THEN -1 ELSE 0

-----------------------------------------------------------------------------
(* C12: for a_target in (-pi, pi], heading in [-pi, 2pi] and a_win > 0 the  *)
(* angle window predicate is true exactly when the circular distance from   *)
(* the heading to a_target is below a_win/2, so a heading h and h + 2pi     *)
(* give the same result.                                                    *)

C12_AngleWindowWraps ==
    calc.fn = "holonomic_robot_in_angle_window" =>
        LET i == calc.in
        IN  /\ calc.out = (2 * CircularDistance(i.a_target, i.heading) < i.a_win)
            /\ i.heading + 2 * M_PI \in AngleHeadings =>
                  calc.out = AngleWindow(i.a_target, i.heading + 2 * M_PI, i.a_win)

-----------------------------------------------------------------------------
(* C15: in TURNING_CAP the angular speed consign has magnitude 50 and its   *)
(* sign depends only on the direction of the shorter rotation: for errors   *)
(* e = a_target - heading in (-2pi, 2pi), two errors whose shortest         *)
(* rotations have the same sign get the same consign, and two with opposite *)
(* signs get opposite consigns.                                             *)

C15_CapSignFollowsShortestRotation ==
    calc.fn = "TURNING_CAP" =>
        LET t == calc.in.a_target
            s == Sign(ShortestRotation(t - calc.in.heading))
        IN  /\ ABS(calc.out) = 50
            /\ \A h \in AngleHeadings :
                  ABS(t - h) < 2 * M_PI =>
                      LET s2 == Sign(ShortestRotation(t - h))
                      IN  /\ s2 = s => CapConsign(t, h) = calc.out
                          /\ (s # 0 /\ s2 = -s) => CapConsign(t, h) = -calc.out

-----------------------------------------------------------------------------
(* C13: after any sequence of arc commands and ticks, after every tick      *)
(* executed in MOVING_CIRCLE the keyframe in xy_target lies on the circle   *)
(* of the current radius around the current centre (to the rounding of the  *)
(* coordinates).                                                            *)

\* the slack that rounding the coordinates of a point of the circle allows
CircleSlack == 2

LiesOnCircle(q, center, radius) ==
    /\ radius - CircleSlack <= 0
         \/ Dist2(q, center) >= (radius - CircleSlack) * (radius - CircleSlack)
    /\ Dist2(q, center) <= (radius + CircleSlack) * (radius + CircleSlack)

C13_KeyframeOnCurrentCircle ==
    (TickRan /\ traj.moving_state = "MOVING_CIRCLE") =>
        LiesOnCircle(traj.xy_target, traj.circle_center, traj.radius)

-----------------------------------------------------------------------------
(* C16: with the moving axis idle and the turning axis in TURNING_CAP,      *)
(* every tick whose heading is outside the angle window issues an angular   *)
(* speed consign of magnitude 50 and leaves both axis states and the task   *)
(* registration as they were; a tick whose heading is inside the window     *)
(* sets the turning axis idle, deregisters the task and sets end_of_traj.   *)

C16_TurningOnlyCompletion ==
    [][ (/\ traj.moving_state = "MOVING_IDLE"
         /\ traj.turning_state = "TURNING_CAP"
         /\ Tick) =>
            IF holonomic_robot_in_angle_window(traj, pos', traj.a_win)
            THEN /\ traj'.turning_state = "TURNING_IDLE"
                 /\ traj'.moving_state = "MOVING_IDLE"
                 /\ traj'.scheduler_task = NO_TASK /\ sched' = {}
                 /\ traj'.end_of_traj = 1
            ELSE /\ CalledIn(ev', "rsh_set_rotation_speed")
                 /\ ABS(rsh'.omega) = 50
                 /\ traj'.moving_state = traj.moving_state
                 /\ traj'.turning_state = traj.turning_state
                 /\ traj'.scheduler_task = traj.scheduler_task
                 /\ sched' = sched
      ]_vars

\* a heading goal was finished by a tick with the heading inside the angle
\* window and the pose outside the distance window
C16_Witness ==
    /\ TickFinished
    /\ traj.moving_state = "MOVING_IDLE" /\ traj.turning_state = "TURNING_IDLE"
    /\ traj.a_target = M_PI
    /\ InAngleWindow /\ ~InXYWindow
    /\ streak.n = 0

-----------------------------------------------------------------------------
(* C17: on every tick, in any combination of axis states, on which no       *)
(* completion branch finishes the trajectory, the evaluator issues the      *)
(* consign to the robot system exactly once: one speed, one direction and   *)
(* one angular speed.                                                       *)

C17_ConsignIssuedOncePerTick ==
    (TickRan /\ ~DeleteRan) =>
        ev = <<"holonomic_trajectory_manager_event", "rsh_set_speed",
               "rsh_set_direction_int", "rsh_set_rotation_speed">>

-----------------------------------------------------------------------------
(* C18: a tick finishes a go-to-point trajectory only when the turning axis *)
(* is idle, the pose it reads is strictly within d_win of the target and    *)
(* the previously issued speed is below 20.  On every other tick in         *)
(* MOVING_STRAIGHT the evaluator leaves moving_state, the task registration *)
(* and end_of_traj as they were.                                            *)

C18_StraightFinishesOnlyWhenSettled ==
    [][ LET settled == /\ traj.turning_state = "TURNING_IDLE"
                       /\ Dist2(pos', traj.xy_target) < traj.d_win * traj.d_win
                       /\ prev_speed < 20
            finishing == \/ traj'.moving_state # "MOVING_STRAIGHT"
                         \/ traj'.scheduler_task # traj.scheduler_task
                         \/ sched' # sched
                         \/ traj'.end_of_traj # traj.end_of_traj
                         \/ CalledIn(ev', "holonomic_delete_event")
        IN  (traj.moving_state = "MOVING_STRAIGHT" /\ finishing /\ Tick) => settled
      ]_vars

\* a go-to-point trajectory finished by the first tick inside the window,
\* the robot standing still
C18_Witness ==
    /\ TickFinished
    /\ streak = [n |-> 1, p |-> 0]
    /\ traj.moving_state = "MOVING_IDLE" /\ traj.turning_state = "TURNING_IDLE"
    /\ InXYWindow

-----------------------------------------------------------------------------
(* C19: on a MOVING_STRAIGHT tick that is not inside the arrival gate the   *)
(* speed consign handed to the rate limiter is 500 when the integer         *)
(* distance to the target is 250 or more and exactly twice that distance    *)
(* when it is below 250 (distance 100 gives 200).                           *)

\* the integer distance from the pose p to the target
distance2target(p) == ISqrt(Dist2(p, traj.xy_target))

TaperedSpeed(d) == IF d >= 250 THEN 500 ELSE 2 * d

C19_StraightTaper ==
    [][ (/\ traj.moving_state = "MOVING_STRAIGHT"
         /\ TickRan'
         /\ ~(/\ traj.turning_state = "TURNING_IDLE"
              /\ holonomic_robot_in_xy_window(traj, pos', traj.d_win))
         /\ Tick) =>
            LET s_consign == TaperedSpeed(distance2target(pos'))
            IN  /\ MovingConsign(Cur, pos').s = s_consign
                /\ CalledIn(ev', "rsh_set_speed")
                /\ rsh'.speed = holonomic_do_ramp(prev_speed, s_consign)
      ]_vars

\* a tick 100 mm from the target, outside the gate, at speed 220: the
\* consign 200 brings the ramp down to 200
C19_Witness ==
    /\ TickRan /\ ~DeleteRan
    /\ traj.moving_state = "MOVING_STRAIGHT"
    /\ distance2target(pos) = 100 /\ ~InXYWindow
    /\ rsh.speed = 200 /\ prev_speed = 200
    /\ streak.n = 0

-----------------------------------------------------------------------------
(* C20: starting from ramp state 0, after any sequence of ticks and         *)
(* finishes every speed delivered to the robot system is non-negative and   *)
(* never exceeds the cruise speed 500.                                      *)

C20_IssuedSpeedWithinCruise ==
    0 <= rsh.speed /\ rsh.speed <= SPEED_ROBOT

-----------------------------------------------------------------------------
(* C14: two trajectories do not interfere.  With a second trajectory armed, *)
(* a tick or a finish of the first changes nothing that the evaluation of   *)
(* the second reads: not its struct, not the ramp's last issued speed, not  *)
(* the keyframe.                                                            *)

C14_TrajectoriesIndependent ==
    [][ (other.sched # {} /\ Tick) =>
            /\ other' = other
            /\ prev_speed' = prev_speed
            /\ keyframe' = keyframe
      ]_vars

-----------------------------------------------------------------------------
(* C21: what a tick leaves alone.  holonomic_trajectory_manager_event moves *)
(* no axis from idle to an active state and none from one active state to   *)
(* another (moving_state and turning_state either stay or become idle), it  *)
(* never changes a_target, circle_center, radius, arc_angle, d_win or       *)
(* a_win, and it changes xy_target only while moving_state is               *)
(* MOVING_CIRCLE.                                                           *)

\* Stated by contraposition: a step that leaves a tick's call log and breaks
\* the frame is no tick.
C21_TickFrame ==
    [][ LET frame ==
              /\ traj'.moving_state \in {traj.moving_state, "MOVING_IDLE"}
              /\ traj'.turning_state \in {traj.turning_state, "TURNING_IDLE"}
              /\ traj'.a_target = traj.a_target
              /\ traj'.circle_center = traj.circle_center
              /\ traj'.radius = traj.radius
              /\ traj'.arc_angle = traj.arc_angle
              /\ traj'.d_win = traj.d_win
              /\ traj'.a_win = traj.a_win
              /\ traj.moving_state # "MOVING_CIRCLE" =>
                    traj'.xy_target = traj.xy_target
        IN  (TickRan' /\ ~frame) => ~Tick
      ]_vars

\* a MOVING_CIRCLE tick has put its keyframe into xy_target and has left the
\* arc's centre, radius and angle as the command set them
C21_Witness ==
    /\ TickRan /\ ~DeleteRan
    /\ traj.moving_state = "MOVING_CIRCLE"
    /\ keyframe.x >= 0 /\ traj.xy_target = keyframe
    /\ traj.radius = 1000 /\ traj.arc_angle = M_PI_2

====
